---- MODULE Spec2Model ----
(***************************************************************************)
(* FragDropDetector browser client: the router with its page lifecycle and *)
(* the timers the pages own, the HTTP client with its response cache and   *)
(* retries, the services on top of it, the TTL cache and the state store.  *)
(*                                                                         *)
(* Each subsystem has its own specification over the same variables:       *)
(*   SpecNav    router, dashboard refresh timer, ratings (Parfumo) timers  *)
(*   SpecApi    ApiClient, its cache, and the services                     *)
(*   SpecCache  CacheManager                                               *)
(*   SpecStore  StateStore and its durable storage                         *)
(*   SpecConfig, SpecParfumo   configuration page and its ratings timers   *)
(*   SpecServices, SpecRace    service calls and concurrent list reads     *)
(*   SpecSubs, SpecReset       StateStore subscribers                      *)
(*   SpecDate   timestamp parsing                                          *)
(*   SpecToast  ToastManager and its timeouts                              *)
(*   SpecInventory, SpecPaging InventoryManager controls and paging        *)
(***************************************************************************)
EXTENDS Integers, Sequences, FiniteSets, TLC

VARIABLES
    \* ---- router (router.js) ----
    currentPage,              \* Router.currentPage
    hist,                     \* session history: sequence of [hash, page]
    histIdx,                  \* index of the current history entry
    navReq,                   \* the last page request: what asked, and for which page
    callLog,                  \* lifecycle hooks called by the last router handler
    \* ---- timers (dashboard.js, part_008) ----
    timers,                   \* kind of interval -> the ids of its live timers
    dashboardRefreshInterval, \* dashboard.js: 0 is null
    parfumoProgressInterval,  \* window.parfumoProgressInterval: 0 is null
    parfumoPeriodicRefresh,   \* window.parfumoPeriodicRefresh: 0 is null
    pending,                  \* awaited fetches of the page code: kind -> count
    dashLoads,                \* loadDashboardData calls in flight
    invBound,                 \* how many times InventoryManager.bindEvents has run
    invLoading,               \* whether a loadInventory call is in flight
    dashboardDom,             \* the last write of loadDashboardData to the dashboard's DOM
    \* ---- ApiClient and services (part_005, part_006) ----
    apiCache,                 \* ApiClient.cache: cache key -> [data, timestamp, ttl]
    calls,                    \* caller -> the service call it is in
    backend,                  \* the number of watchlist changes the backend has applied
    now,                      \* Date.now(), in milliseconds
    \* ---- CacheManager (part_002) ----
    cmCache,                  \* CacheManager.cache: key -> [value, expires]
    cmRet,                    \* the last CacheManager call and what it returned
    \* ---- StateStore (part_002) ----
    state,                    \* StateStore.state: slot -> value
    storage,                  \* localStorage: item key -> the object serialized in it
    storeOp,                  \* the last StateStore operation
    storeArgs,                \* its arguments
    listeners,                \* StateStore.listeners: key -> callbacks, in insertion order
    notifyLog,                \* the callbacks the last operation invoked, in order
    regs,                     \* the unsubscribe closures subscribe has returned
    \* ---- DateUtils (utils/date.js) ----
    dateIn,                   \* the argument of the last parseTimestamp call
    dateOut,                  \* what it returned
    \* ---- ToastManager (part_007) ----
    container,                \* the toast elements in the container
    toasts,                   \* ToastManager.toasts: toast id -> element
    timeouts,                 \* the pending setTimeout callbacks, in registration order
    shown,                    \* the show() calls made: element n is shown[n]
    \* ---- InventoryManager (part_002) ----
    invPage,                  \* InventoryManager.currentPage
    allItems,                 \* InventoryManager.allItems: how many items, by watchlist flag
    filteredItems,            \* InventoryManager.filteredItems.length
    watchlistOnly,            \* InventoryManager.watchlistOnly
    sortOrder,                \* InventoryManager.sortOrder
    invOp                     \* the last inventory event, with the values it found

navVars == <<currentPage, hist, histIdx, navReq, callLog, timers, dashboardRefreshInterval,
             parfumoProgressInterval, parfumoPeriodicRefresh, pending, dashLoads,
             invBound, invLoading>>

apiVars == <<apiCache, calls>>
cacheVars == <<cmCache, cmRet>>
storeVars == <<state, storage, storeOp, storeArgs, listeners, notifyLog, regs>>

dateVars == <<dateIn, dateOut>>
toastVars == <<container, toasts, timeouts, shown>>
invVars == <<invPage, allItems, filteredItems, watchlistOnly, sortOrder, invOp>>

vars == <<navVars, dashboardDom, apiVars, backend, now, cacheVars, storeVars, dateVars, toastVars, invVars>>

notNav == <<dashboardDom, apiVars, backend, now, cacheVars, storeVars, dateVars, toastVars, invVars>>
notApi == <<navVars, dashboardDom, backend, cacheVars, storeVars, dateVars, toastVars, invVars>>
notCache == <<navVars, dashboardDom, apiVars, backend, storeVars, dateVars, toastVars, invVars>>
notStore == <<navVars, dashboardDom, apiVars, backend, cacheVars, dateVars, toastVars, invVars>>
notDate == <<navVars, dashboardDom, apiVars, backend, now, cacheVars, storeVars, toastVars, invVars>>
notClient == <<navVars, dashboardDom, now, cacheVars, storeVars, dateVars, toastVars, invVars>>
notDashboard == <<apiVars, backend, now, cacheVars, storeVars, dateVars, toastVars, invVars>>
notToast == <<navVars, dashboardDom, apiVars, backend, cacheVars, storeVars, dateVars, invVars>>
notInv == <<dashboardDom, apiVars, backend, now, cacheVars, storeVars, dateVars, toastVars>>

(***************************************************************************)
(* Bounds                                                                  *)
(***************************************************************************)
MaxHist == 3
MaxTimers == 2
MaxPending == 2
MaxTicks == 2
MaxRetries == 2
MaxSubs == 3
MaxDigits == 12
MaxMutations == 2
MaxToasts == 3
MaxBinds == 2
MaxWatched == 2

(***************************************************************************)
(* Router                                                                  *)
(***************************************************************************)
pages == {"dashboard", "inventory", "configuration"}

\* A page identifier the fixed set does not hold (the repository also carries
\* an activity page, which this router does not serve).
OtherPage == "activity"

\* history.state of an entry: {page} as pushed by navigateTo, or null ("none").
NoState == "none"
StatePages == pages \cup {OtherPage, NoState}
Hashes == {"", "inventory", OtherPage}

TimerIds == 1..MaxTimers
NoTimer == 0
PendingKinds == {"trigger", "load", "progressTick", "periodicTick"}

\* The timer state the lifecycle hooks act on.
TimerState == [interval |-> dashboardRefreshInterval, live |-> timers, loads |-> dashLoads,
               bound |-> invBound, loading |-> invLoading]

TimerKinds == {"dashboard", "progress", "periodic"}

\* setInterval returns an id that no live timer has and no variable holds. Ids
\* never pass from one timer variable to another, so each kind of interval
\* draws its ids from its own numbering: <<kind, n>> is the timer's identity.
FreshIn(live, kind, held) == {i \in TimerIds : i \notin live[kind] /\ i # held}
NewTimer(live, kind, held) ==
    CHOOSE i \in FreshIn(live, kind, held) : \A j \in FreshIn(live, kind, held) : i <= j

setInterval(live, kind, id) == [live EXCEPT ![kind] = @ \cup {id}]

\* clearInterval(id): a null or stale id clears nothing.
clearInterval(live, kind, id) == [live EXCEPT ![kind] = @ \ {id}]

setupDashboardRefresh(T) ==
    LET id == NewTimer(T.live, "dashboard", T.interval)
    IN  [T EXCEPT !.interval = id, !.live = setInterval(T.live, "dashboard", id)]

initializeDashboard(T) ==
    setupDashboardRefresh([T EXCEPT !.loads = T.loads + 1])

cleanupDashboardNoClear(T) == T

cleanupDashboard(T) ==
    IF T.interval # NoTimer
    THEN [T EXCEPT !.live = clearInterval(T.live, "dashboard", T.interval),
                   !.interval = NoTimer]
    ELSE T

\* configuration.js: no specific cleanup
cleanupConfiguration(T) == T

onPageLeave(page, T) ==
    CASE page = "dashboard" -> cleanupDashboard(T)
      [] page = "configuration" -> cleanupConfiguration(T)
      [] OTHER -> T

\* InventoryManager.init: bindEvents(), then loadInventory() up to its await
InventoryManager_init(T) == [T EXCEPT !.bound = T.bound + 1, !.loading = TRUE]

onPageEnter(page, T) ==
    CASE page = "dashboard" -> initializeDashboard(T)
      [] page = "inventory" -> InventoryManager_init(T)
      [] OTHER -> T

LifecycleCallsSwapped(previousPage, page) ==
    << [hook |-> "enter", page |-> page], [hook |-> "leave", page |-> previousPage] >>

\* showPage's lifecycle calls, in the order it makes them.
LifecycleCalls(previousPage, page) ==
    << [hook |-> "leave", page |-> previousPage], [hook |-> "enter", page |-> page] >>

ApplyCall(c, T) ==
    IF c.hook = "leave" THEN onPageLeave(c.page, T) ELSE onPageEnter(c.page, T)

RECURSIVE ApplyCalls(_, _)
ApplyCalls(cs, T) ==
    IF cs = << >> THEN T
    ELSE ApplyCalls(Tail(cs), ApplyCall(Head(cs), T))

\* The timers a showPage needs to be available (a bound of the model).
CanShow(page) ==
    /\ page = "dashboard" /\ currentPage # page =>
          /\ FreshIn(timers, "dashboard", dashboardRefreshInterval) # {}
          /\ dashLoads < MaxPending
    /\ page = "inventory" /\ currentPage # page => invBound < MaxBinds

showPage(page) ==
    IF currentPage = page
    THEN /\ callLog' = << >>
         /\ UNCHANGED <<currentPage, timers, dashboardRefreshInterval, dashLoads,
                        invBound, invLoading>>
    ELSE LET hooks == LifecycleCalls(currentPage, page)
             T == ApplyCalls(hooks, TimerState)
         IN  /\ currentPage' = page
             /\ callLog' = hooks
             /\ timers' = T.live
             /\ dashboardRefreshInterval' = T.interval
             /\ dashLoads' = T.loads
             /\ invBound' = T.bound
             /\ invLoading' = T.loading

\* history.pushState: entries after the current one are dropped.
pushState(page) == Append(SubSeq(hist, 1, histIdx), [hash |-> page, page |-> page])

AnyPage(page) == TRUE

\* this.pages.includes(page)
IsKnownPage(page) == page \in pages

\* navigateTo(page); a click on a navigation item calls it with the item's data-page.
navigateTo(page) ==
    /\ CanShow(page)
    /\ navReq' = [trigger |-> "navigateTo", page |-> page]
    /\ IF ~IsKnownPage(page)
       THEN /\ callLog' = << >>
            /\ UNCHANGED <<currentPage, hist, histIdx, timers, dashboardRefreshInterval,
                           dashLoads, invBound, invLoading>>
       ELSE /\ histIdx < MaxHist
            /\ hist' = pushState(page)
            /\ histIdx' = histIdx + 1
            /\ showPage(page)
    /\ UNCHANGED <<parfumoProgressInterval, parfumoPeriodicRefresh, pending>>
    /\ UNCHANGED notNav

NavigateTo == \E page \in pages \cup {OtherPage} : navigateTo(page)

\* e.state?.page || 'dashboard'
PopstatePage(historyState) == IF historyState = NoState THEN "dashboard" ELSE historyState

\* Browser back/forward: the browser moves to entry i and fires popstate.
popstate(i) ==
    /\ i \in 1..Len(hist)
    /\ i # histIdx
    /\ CanShow(PopstatePage(hist[i].page))
    /\ histIdx' = i
    /\ navReq' = [trigger |-> "popstate", page |-> PopstatePage(hist[i].page)]
    /\ showPage(PopstatePage(hist[i].page))
    /\ UNCHANGED <<hist, parfumoProgressInterval, parfumoPeriodicRefresh, pending>>
    /\ UNCHANGED notNav

Popstate == \E i \in {histIdx - 1, histIdx + 1} : popstate(i)

\* handleInitialRoute
InitialRoute(hash) ==
    LET h == IF hash = "" THEN "dashboard" ELSE hash
    IN  IF h \in pages THEN h ELSE "dashboard"

(***************************************************************************)
(* Dashboard refresh timer (dashboard.js)                                  *)
(***************************************************************************)
PendingTotal == pending["trigger"] + pending["load"] + pending["progressTick"]
                + pending["periodicTick"]

Await(kind) == [pending EXCEPT ![kind] = @ + 1]
Resume(kind) == [pending EXCEPT ![kind] = @ - 1]

\* The interval callback of setupDashboardRefresh.
DashboardTick ==
    /\ timers["dashboard"] # {}
    /\ currentPage = "dashboard"
    /\ dashLoads < MaxPending
    /\ dashLoads' = dashLoads + 1
    /\ UNCHANGED <<currentPage, hist, histIdx, navReq, callLog, timers,
                   dashboardRefreshInterval, parfumoProgressInterval,
                   parfumoPeriodicRefresh, pending, invBound, invLoading>>
    /\ UNCHANGED notNav

\* The dashboard's cards as loadDashboardData last wrote them: untouched, or
\* written while the router's active page was `page`.
NoWrite == [by |-> "none"]
DomWrite(page) == [by |-> "loadDashboardData", page |-> page]

\* updateDashboardStatus(status) and the updates that follow it: the elements
\* are looked up by id and written, whichever page is shown.
updateDashboardStatus(page) == DomWrite(page)

\* A loadDashboardData call resumes after its awaits and runs to its end.
DashboardLoadDone ==
    /\ dashLoads > 0
    /\ dashLoads' = dashLoads - 1
    /\ dashboardDom' = updateDashboardStatus(currentPage)
    /\ UNCHANGED <<currentPage, hist, histIdx, navReq, callLog, timers,
                   dashboardRefreshInterval, parfumoProgressInterval,
                   parfumoPeriodicRefresh, pending, invBound, invLoading>>
    /\ UNCHANGED notDashboard

(***************************************************************************)
(* Ratings (Parfumo) timers of the configuration page (part_008)           *)
(***************************************************************************)
\* The parfumo timer state: P = [progress, periodic, live, pend]
ParfumoState == [progress |-> parfumoProgressInterval, periodic |-> parfumoPeriodicRefresh,
                 live |-> timers, pend |-> pending]

pollParfumoProgressNoClear(P) ==
    LET id == NewTimer(P.live, "progress", P.progress)
    IN  [P EXCEPT !.progress = id, !.live = setInterval(P.live, "progress", id)]

pollParfumoProgress(P) ==
    LET cleared == IF P.progress # NoTimer
                   THEN clearInterval(P.live, "progress", P.progress) ELSE P.live
        id == NewTimer(cleared, "progress", P.progress)
    IN  [P EXCEPT !.progress = id, !.live = setInterval(cleared, "progress", id)]

startPeriodicRefresh(P) ==
    LET cleared == IF P.periodic # NoTimer
                   THEN clearInterval(P.live, "periodic", P.periodic) ELSE P.live
        id == NewTimer(cleared, "periodic", P.periodic)
    IN  [P EXCEPT !.periodic = id, !.live = setInterval(cleared, "periodic", id)]

\* loadParfumoStatus up to its first await
loadParfumoStatus(P) == [P EXCEPT !.pend = [P.pend EXCEPT !["load"] = @ + 1]]

\* loadParfumoStatus after the status response
loadParfumoStatusResume(P, ok, updating) ==
    IF ~ok THEN P
    ELSE IF updating
         THEN IF P.progress = NoTimer THEN pollParfumoProgress(P) ELSE P
         ELSE startPeriodicRefresh(P)

\* the progress interval's callback after the status response
progressTickResume(P, ok, updating) ==
    IF ~ok \/ updating THEN P
    ELSE loadParfumoStatus([P EXCEPT !.live = clearInterval(P.live, "progress", P.progress),
                                     !.progress = NoTimer])

\* the periodic interval's callback after the status response
periodicTickResume(P, ok, updating) ==
    IF ok /\ updating
    THEN pollParfumoProgress([P EXCEPT !.live = clearInterval(P.live, "periodic", P.periodic),
                                       !.periodic = NoTimer])
    ELSE P

SetParfumo(P) ==
    /\ parfumoProgressInterval' = P.progress
    /\ parfumoPeriodicRefresh' = P.periodic
    /\ timers' = P.live
    /\ pending' = P.pend
    /\ UNCHANGED <<currentPage, hist, histIdx, navReq, callLog, dashboardRefreshInterval,
                   dashLoads, invBound, invLoading>>
    /\ UNCHANGED notNav

Resumed(kind) == [ParfumoState EXCEPT !.pend = Resume(kind)]

\* The update button of the ratings tab: triggerParfumoUpdate up to its await.
TriggerParfumoUpdate ==
    /\ currentPage = "configuration"
    /\ PendingTotal < MaxPending
    /\ SetParfumo([ParfumoState EXCEPT !.pend = Await("trigger")])

TriggerParfumoUpdateDone ==
    /\ pending["trigger"] > 0
    /\ FreshIn(timers, "progress", parfumoProgressInterval) # {}
    /\ \E ok \in BOOLEAN :
          SetParfumo(IF ok THEN pollParfumoProgress(Resumed("trigger")) ELSE Resumed("trigger"))

\* saveParfumoUrl reloads the statistics: loadParfumoStatus()
LoadParfumoStatus ==
    /\ currentPage = "configuration"
    /\ PendingTotal < MaxPending
    /\ SetParfumo(loadParfumoStatus(ParfumoState))

LoadParfumoStatusDone ==
    /\ pending["load"] > 0
    /\ FreshIn(timers, "progress", parfumoProgressInterval) # {}
    /\ FreshIn(timers, "periodic", parfumoPeriodicRefresh) # {}
    /\ \E ok \in BOOLEAN, updating \in BOOLEAN :
          SetParfumo(loadParfumoStatusResume(Resumed("load"), ok, updating))

ProgressTick ==
    /\ timers["progress"] # {}
    /\ PendingTotal < MaxPending
    /\ SetParfumo([ParfumoState EXCEPT !.pend = Await("progressTick")])

ProgressTickDone ==
    /\ pending["progressTick"] > 0
    /\ \E ok \in BOOLEAN, updating \in BOOLEAN :
          SetParfumo(progressTickResume(Resumed("progressTick"), ok, updating))

\* The periodic callback fetches only while no progress poll is registered
\* (the ratings tab's inline display style is never set by the page code).
PeriodicTick ==
    /\ timers["periodic"] # {}
    /\ parfumoProgressInterval = NoTimer
    /\ PendingTotal < MaxPending
    /\ SetParfumo([ParfumoState EXCEPT !.pend = Await("periodicTick")])

PeriodicTickDone ==
    /\ pending["periodicTick"] > 0
    /\ FreshIn(timers, "progress", parfumoProgressInterval) # {}
    /\ \E ok \in BOOLEAN, updating \in BOOLEAN :
          SetParfumo(periodicTickResume(Resumed("periodicTick"), ok, updating))

(***************************************************************************)
(* CacheManager (part_002)                                                 *)
(***************************************************************************)
\* Keys are URLs, as sequences of their pieces.
CacheKeys == { <<"/", "api", "/", "config">>,
               <<"/", "api", "/", "stock", "/", "fragrances", "?", "x">> }
CacheValues == {"v", "w"}
defaultTTL == 30000
\* the ttl arguments of set: the default, and twice the default
TTLs == {defaultTTL, 2 * defaultTTL}

Absent == "null"
NoCall == [op |-> "none"]

\* an entry keeps value and expires; storedAt and ttl record the set that
\* wrote it
CacheManager_set(cache, key, value, ttl, t) ==
    [k \in (DOMAIN cache) \cup {key} |->
        IF k = key THEN [value |-> value, expires |-> t + ttl, storedAt |-> t, ttl |-> ttl]
        ELSE cache[k]]

\* get: the value returned and the cache left
CacheManager_get(cache, key, t) ==
    IF key \notin DOMAIN cache
    THEN [value |-> Absent, cache |-> cache]
    ELSE IF t > cache[key].expires
         THEN [value |-> Absent, cache |-> [k \in (DOMAIN cache) \ {key} |-> cache[k]]]
         ELSE [value |-> cache[key].value, cache |-> cache]

CacheSet ==
    /\ \E key \in CacheKeys, value \in CacheValues, ttl \in TTLs :
          /\ cmCache' = CacheManager_set(cmCache, key, value, ttl, now)
          /\ cmRet' = [op |-> "set", key |-> key, value |-> value, t |-> now]
    /\ UNCHANGED <<now, notCache>>

CacheGet ==
    /\ \E key \in CacheKeys :
          LET r == CacheManager_get(cmCache, key, now)
          IN  /\ cmCache' = r.cache
              /\ cmRet' = [op |-> "get", key |-> key, value |-> r.value, t |-> now]
    /\ UNCHANGED <<now, notCache>>

\* has(key): get(key) !== null
CacheHas ==
    /\ \E key \in CacheKeys :
          LET r == CacheManager_get(cmCache, key, now)
          IN  /\ cmCache' = r.cache
              /\ cmRet' = [op |-> "has", key |-> key, value |-> (r.value # Absent),
                           t |-> now]
    /\ UNCHANGED <<now, notCache>>

CacheInvalidate ==
    /\ \E key \in DOMAIN cmCache :
          /\ cmCache' = [k \in (DOMAIN cmCache) \ {key} |-> cmCache[k]]
          /\ cmRet' = [op |-> "invalidate", key |-> key, value |-> Absent, t |-> now]
    /\ UNCHANGED <<now, notCache>>

\* The patterns given to invalidatePattern: parts of a URL, and a whole URL.
CachePatterns == { <<"fragrances">>, <<"config">>, <<"/", "api">>,
                   <<"/", "api", "/", "stock", "/", "fragrances", "?", "x">> }

\* the piece without its last character
Chopped(piece) == IF piece = "fragrances" THEN "fragrance" ELSE "-"

\* A RegExp built from the pattern matches at the start of key. Of the
\* characters that are special in a regular expression the patterns hold only
\* "?", which makes the character before it optional.
RECURSIVE MatchHere(_, _)
MatchHere(pat, key) ==
    IF pat = << >> THEN TRUE
    ELSE IF Len(pat) >= 2 /\ pat[2] = "?"
         THEN /\ key # << >>
              /\ Head(key) \in {pat[1], Chopped(pat[1])}
              /\ MatchHere(Tail(Tail(pat)), Tail(key))
         ELSE /\ key # << >>
              /\ Head(key) = Head(pat)
              /\ MatchHere(Tail(pat), Tail(key))

\* new RegExp(pattern).test(key)
RECURSIVE RegExpTest(_, _)
RegExpTest(pat, key) ==
    IF MatchHere(pat, key) THEN TRUE
    ELSE IF key = << >> THEN FALSE
    ELSE RegExpTest(pat, Tail(key))

CacheManager_invalidatePattern(cache, pattern) ==
    [k \in {j \in DOMAIN cache : ~RegExpTest(pattern, j)} |-> cache[k]]

CacheInvalidatePattern ==
    /\ \E pattern \in CachePatterns :
          /\ cmCache' = CacheManager_invalidatePattern(cmCache, pattern)
          /\ cmRet' = [op |-> "invalidatePattern", key |-> pattern, value |-> Absent,
                       t |-> now]
    /\ UNCHANGED <<now, notCache>>

\* cleanup(): the sweep the 60 s interval runs
CacheCleanup ==
    /\ cmCache' = [k \in {j \in DOMAIN cmCache : ~(now > cmCache[j].expires)} |-> cmCache[k]]
    /\ cmCache' # cmCache
    /\ UNCHANGED <<cmRet, now, notCache>>

CacheIdle ==
    /\ cmCache = << >>
    /\ cmRet = NoCall

(***************************************************************************)
(* StateStore (part_002)                                                   *)
(***************************************************************************)
Slots == {"status", "drops", "stockChanges", "fragrances", "watchlist", "config"}

\* Slot values are JSON values, named by their JSON text.
SlotDefaults ==
    [status |-> "null", drops |-> "[]", stockChanges |-> "[]", fragrances |-> "{}",
     watchlist |-> "[]", config |-> "null", lastUpdate |-> "null"]

\* the values the pages set: null (clear) and a non-empty value
SetValues == {"null", "[\"a\"]"}

STORAGE_KEY == "fragdrop_state"
NoItems == << >>
setItem(key, item) == [k \in {key} |-> item]

PersistedWithStatus(st) ==
    [watchlist |-> st.watchlist, lastUpdate |-> st.lastUpdate, status |-> st.status]

\* saveToStorage: the object that is serialized
Persisted(st) == [watchlist |-> st.watchlist, lastUpdate |-> st.lastUpdate]

\* Object.assign(target, source)
ObjectAssign(target, source) ==
    [k \in DOMAIN target |-> IF k \in DOMAIN source THEN source[k] ELSE target[k]]

\* loadFromStorage on the constructor's defaults
loadFromStorage(st, items) ==
    IF STORAGE_KEY \in DOMAIN items THEN ObjectAssign(st, items[STORAGE_KEY]) ELSE st

\* The callbacks the pages subscribe, and the keys they subscribe to.
Callbacks == {"f", "g"}
Wildcard == "*"
Channels == {"watchlist", Wildcard}

NoListeners == << >>
Range(q) == {q[i] : i \in 1..Len(q)}

\* this.listeners.get(key), an empty Set when the key has none
ListenersOf(L, key) == IF key \in DOMAIN L THEN L[key] ELSE << >>

\* Set.add keeps the place of a callback that is already in the Set
SetAdd(q, cb) == IF cb \in Range(q) THEN q ELSE Append(q, cb)
SetDelete(q, cb) == SelectSeq(q, LAMBDA x : x # cb)

\* subscribe(key, callback): the listeners it leaves
subscribe(L, key, cb) ==
    [k \in (DOMAIN L) \cup {key} |-> IF k = key THEN SetAdd(ListenersOf(L, key), cb) ELSE L[k]]

unsubscribeAll(L, key, cb) ==
    IF key \in DOMAIN L THEN [L EXCEPT ![key] = << >>] ELSE L

\* the closure subscribe returns: this.listeners.get(key)?.delete(callback)
unsubscribe(L, key, cb) ==
    IF key \in DOMAIN L THEN [L EXCEPT ![key] = SetDelete(@, cb)] ELSE L

InvokeUntilThrow(cbs, args, throwers) ==
    LET n == IF \E i \in 1..Len(cbs) : cbs[i] \in throwers
             THEN CHOOSE i \in 1..Len(cbs) :
                      cbs[i] \in throwers /\ \A j \in 1..(i - 1) : cbs[j] \notin throwers
             ELSE Len(cbs)
    IN  [i \in 1..n |-> [cb |-> cbs[i], args |-> args, threw |-> cbs[i] \in throwers]]

\* forEach over a Set of callbacks; a callback in throwers throws, which the
\* try/catch around the call logs
Invoke(cbs, args, throwers) ==
    [i \in 1..Len(cbs) |-> [cb |-> cbs[i], args |-> args, threw |-> cbs[i] \in throwers]]

notifyWildcardFirst(L, key, newValue, oldValue, throwers) ==
    Invoke(ListenersOf(L, Wildcard), <<key, newValue, oldValue>>, throwers)
    \o Invoke(ListenersOf(L, key), <<newValue, oldValue>>, throwers)

\* notify(key, newValue, oldValue): the calls it makes, in order
notify(L, key, newValue, oldValue, throwers) ==
    Invoke(ListenersOf(L, key), <<newValue, oldValue>>, throwers)
    \o Invoke(ListenersOf(L, Wildcard), <<key, newValue, oldValue>>, throwers)

Registered == UNION {Range(listeners[k]) : k \in DOMAIN listeners}

\* set(key, value): assign, stamp lastUpdate, saveToStorage, notify
set(key, value, throwers) ==
    LET st == [state EXCEPT ![key] = value, !.lastUpdate = ToString(now)]
    IN  /\ state' = st
        /\ storage' = setItem(STORAGE_KEY, Persisted(st))
        /\ notifyLog' = notify(listeners, key, value, state[key], throwers)
        /\ storeOp' = "set"
        /\ storeArgs' = <<key, value>>
        /\ UNCHANGED <<listeners, regs, now, notStore>>

StoreSet ==
    \E key \in Slots \cup {"lastUpdate"}, value \in SetValues, throwers \in SUBSET Registered :
        set(key, value, throwers)

\* reset(): every slot but lastUpdate becomes null, clearStorage, notify('*')
reset(throwers) ==
    /\ state' = [k \in DOMAIN state |-> IF k # "lastUpdate" THEN "null" ELSE state[k]]
    /\ storage' = NoItems
    /\ notifyLog' = notify(listeners, Wildcard, "null", "null", throwers)
    /\ storeOp' = "reset"
    /\ storeArgs' = << >>
    /\ UNCHANGED <<listeners, regs, now, notStore>>

StoreReset == \E throwers \in SUBSET Registered : reset(throwers)

\* the sets a page with subscribers makes
ObservedKeys == {"watchlist", "status"}
StoreSetObserved ==
    \E key \in ObservedKeys, throwers \in SUBSET Registered : set(key, "[\"a\"]", throwers)

\* subscribe(key, callback); the closure it returns is kept by the caller
Subscribe ==
    /\ Len(regs) < MaxSubs
    /\ \E key \in Channels, cb \in Callbacks :
          /\ listeners' = subscribe(listeners, key, cb)
          /\ regs' = Append(regs, [key |-> key, cb |-> cb, called |-> FALSE])
          /\ storeArgs' = <<key, cb>>
    /\ storeOp' = "subscribe"
    /\ notifyLog' = << >>
    /\ UNCHANGED <<state, storage, now, notStore>>

\* the caller calls the closure that the i-th subscribe returned
Unsubscribe ==
    /\ \E i \in 1..Len(regs) :
          /\ listeners' = unsubscribe(listeners, regs[i].key, regs[i].cb)
          /\ regs' = [regs EXCEPT ![i].called = TRUE]
          /\ storeArgs' = <<i>>
    /\ storeOp' = "unsubscribe"
    /\ notifyLog' = << >>
    /\ UNCHANGED <<state, storage, now, notStore>>

\* the page is loaded again: new StateStore() over the same localStorage
StoreReload ==
    /\ state' = loadFromStorage(SlotDefaults, storage)
    /\ storeOp' = "new"
    /\ storeArgs' = << >>
    /\ listeners' = NoListeners
    /\ notifyLog' = << >>
    /\ regs' = << >>
    /\ UNCHANGED <<storage, now, notStore>>

StoreIdle ==
    /\ state = SlotDefaults
    /\ storage = NoItems
    /\ storeOp = "new"
    /\ storeArgs = << >>
    /\ listeners = NoListeners
    /\ notifyLog = << >>
    /\ regs = << >>

(***************************************************************************)
(* DateUtils.parseTimestamp (utils/date.js)                                *)
(***************************************************************************)
\* A JavaScript number that is an integer: its sign and its decimal digits,
\* without leading zeros (zero is the digit 0).
Num(neg, digits) == [type |-> "number", neg |-> neg, digits |-> digits]
Zero == Num(FALSE, <<0>>)

\* the digits d1 d d d ... of the given length
Digits(first, rest, len) == [i \in 1..len |-> IF i = 1 THEN first ELSE rest]

Numbers ==
    {Zero} \cup {Num(neg, Digits(first, rest, len)) :
                    neg \in BOOLEAN, first \in {1, 9}, rest \in {0, 9}, len \in 1..MaxDigits}

JsNullValue == [type |-> "null"]
JsUndefined == [type |-> "undefined"]
Str(text) == [type |-> "string", text |-> text]

\* new Date(string): the strings the backend sends, and their instants
IsoInstants ==
    [t \in {"1970-01-01T00:00:01Z"} |-> Num(FALSE, <<1, 0, 0, 0>>)]
Strings == {"", "not a date", "1970-01-01T00:00:01Z"}

TimestampInputs == Numbers \cup {JsNullValue, JsUndefined} \cup {Str(t) : t \in Strings}

\* 10000000000 has eleven digits
ThresholdDigits == 11

\* value < 10000000000
BelowThreshold(n) == n.neg \/ Len(n.digits) < ThresholdDigits

\* value * 1000
Times1000(n) == IF n = Zero THEN Zero ELSE Num(n.neg, n.digits \o <<0, 0, 0>>)

\* new Date(ms), for ms within the range of Date
DateOf(ms) == [type |-> "date", ms |-> ms]

\* !value
Falsy(value) ==
    \/ value.type \in {"null", "undefined"}
    \/ value = Zero
    \/ value = Str("")

parseTimestamp(value) ==
    IF Falsy(value) THEN JsNullValue
    ELSE IF value.type = "date" THEN value
    ELSE IF value.type = "number"
         THEN IF BelowThreshold(value) THEN DateOf(Times1000(value)) ELSE DateOf(value)
    ELSE IF value.type = "string"
         THEN IF value.text \in DOMAIN IsoInstants THEN DateOf(IsoInstants[value.text])
              ELSE JsNullValue
    ELSE JsNullValue

ParseTimestamp ==
    /\ \E value \in TimestampInputs :
          /\ dateIn' = value
          /\ dateOut' = parseTimestamp(value)
    /\ UNCHANGED notDate

\* a date the page already holds is parsed again
ParseDate ==
    /\ dateOut.type = "date"
    /\ dateIn' = dateOut
    /\ dateOut' = parseTimestamp(dateOut)
    /\ UNCHANGED notDate

DateIdle ==
    /\ dateIn = JsUndefined
    /\ dateOut = JsNullValue

(***************************************************************************)
(* ToastManager (part_007)                                                 *)
(***************************************************************************)
\* the duration options of show: 0 (no auto-dismiss) and the default
Durations == {0, 4000}
\* dismiss removes the element after its hide animation
HideDelay == 300

NoToasts == << >>

\* Map.set and Map.delete on the toasts map
MapSet(m, id, el) == [k \in (DOMAIN m) \cup {id} |-> IF k = id THEN el ELSE m[k]]
MapDelete(m, id) == [k \in (DOMAIN m) \ {id} |-> m[k]]

\* setTimeout(fn, delay) at time t
Timeout(fn, id, el, t, delay) == [fn |-> fn, id |-> id, el |-> el, due |-> t + delay]

\* const toastId = Date.now().toString()
ToastId(t) == ToString(t)

\* show(message, type, {duration, persistent}); the element created is the
\* next in number
show(persistent, duration) ==
    LET toastId == ToastId(now)
        toast == Len(shown) + 1
    IN  /\ container' = container \cup {toast}
        /\ toasts' = MapSet(toasts, toastId, toast)
        /\ timeouts' = IF ~persistent /\ duration > 0
                       THEN Append(timeouts, Timeout("dismiss", toastId, 0, now, duration))
                       ELSE timeouts
        /\ shown' = Append(shown, [id |-> toastId, persistent |-> persistent,
                                   duration |-> duration])
        /\ UNCHANGED <<now, notToast>>

Show ==
    /\ Len(shown) < MaxToasts
    /\ \E persistent \in BOOLEAN, duration \in Durations : show(persistent, duration)

\* dismiss(toastId): the timeouts it leaves, given those already pending
dismiss(pend, toastId, t) ==
    IF toastId \notin DOMAIN toasts THEN pend
    ELSE Append(pend, Timeout("remove", toastId, toasts[toastId], t, HideDelay))

\* the timeout that fires next: the earliest due, the first registered of those
NextTimeout ==
    CHOOSE i \in 1..Len(timeouts) :
        \A j \in 1..Len(timeouts) :
            \/ timeouts[i].due < timeouts[j].due
            \/ timeouts[i].due = timeouts[j].due /\ i <= j

Without(q, i) == SubSeq(q, 1, i - 1) \o SubSeq(q, i + 1, Len(q))

\* The clock reaches the next timeout and its callback runs: dismiss(toastId)
\* from show, or the removal that dismiss scheduled.
FireTimeout ==
    /\ timeouts # << >>
    /\ LET i == NextTimeout
           cb == timeouts[i]
           t == IF cb.due > now THEN cb.due ELSE now
       IN  /\ now' = t
           /\ IF cb.fn = "dismiss"
              THEN /\ timeouts' = dismiss(Without(timeouts, i), cb.id, t)
                   /\ UNCHANGED <<container, toasts>>
              ELSE /\ timeouts' = Without(timeouts, i)
                   /\ container' = container \ {cb.el}
                   /\ toasts' = MapDelete(toasts, cb.id)
    /\ UNCHANGED <<shown, notToast>>

ToastIdle ==
    /\ container = {}
    /\ toasts = NoToasts
    /\ timeouts = << >>
    /\ shown = << >>

(***************************************************************************)
(* InventoryManager (part_002)                                             *)
(***************************************************************************)
itemsPerPage == 24

\* allItems, as the number of items with and without the watchlist flag. The
\* listing the server answers with: nothing, or 49 items of which one is
\* watched (three pages, one page under the watchlist filter).
NoItemsLoaded == [watched |-> 0, unwatched |-> 0]
Listings == {NoItemsLoaded, [watched |-> 1, unwatched |-> 2 * itemsPerPage]}

Controls == {"prev-page", "next-page", "watchlist-toggle", "sort-direction-toggle"}

\* The fields of InventoryManager the handlers act on.
InvState == [page |-> invPage, items |-> allItems, filtered |-> filteredItems,
             watchlistOnly |-> watchlistOnly, sortOrder |-> sortOrder,
             loading |-> invLoading]

\* Math.ceil(n / d)
Ceil(n, d) == (n + d - 1) \div d

\* this.allItems.filter(...).length with the search box and the stock and
\* gender selects left empty
Filter(items, wOnly) == IF wOnly THEN items.watched ELSE items.watched + items.unwatched

applyFilters(I) ==
    [I EXCEPT !.filtered = Filter(I.items, I.watchlistOnly), !.page = 1]

changePageUnchecked(I, delta) ==
    IF I.page + delta >= 1 THEN [I EXCEPT !.page = I.page + delta] ELSE I

changePage(I, delta) ==
    LET totalPages == Ceil(I.filtered, itemsPerPage)
        newPage == I.page + delta
    IN  IF newPage >= 1 /\ newPage <= totalPages THEN [I EXCEPT !.page = newPage] ELSE I

\* loadInventory up to its await
loadInventory(I) == [I EXCEPT !.loading = TRUE]

\* the listener bindEvents adds to a control
Handler(control, I) ==
    CASE control = "prev-page" -> changePage(I, -1)
      [] control = "next-page" -> changePage(I, 1)
      [] control = "watchlist-toggle" ->
            applyFilters([I EXCEPT !.watchlistOnly = ~I.watchlistOnly])
      [] control = "sort-direction-toggle" ->
            loadInventory([I EXCEPT !.sortOrder = IF I.sortOrder = "asc" THEN "desc"
                                                  ELSE "asc"])

\* A click runs every listener added to the control, in the order added;
\* each bindEvents run has added one.
RECURSIVE Dispatch(_, _, _)
Dispatch(control, n, I) ==
    IF n = 0 THEN I ELSE Dispatch(control, n - 1, Handler(control, I))

InvEvent(event, I) ==
    [control |-> event, page |-> I.page, watchlistOnly |-> I.watchlistOnly,
     sortOrder |-> I.sortOrder]

SetInv(I, event) ==
    /\ invPage' = I.page
    /\ allItems' = I.items
    /\ filteredItems' = I.filtered
    /\ watchlistOnly' = I.watchlistOnly
    /\ sortOrder' = I.sortOrder
    /\ invLoading' = I.loading
    /\ invOp' = event
    /\ UNCHANGED <<currentPage, hist, histIdx, navReq, callLog, timers,
                   dashboardRefreshInterval, parfumoProgressInterval,
                   parfumoPeriodicRefresh, pending, dashLoads, invBound>>
    /\ UNCHANGED notInv

\* The user clicks a control of the inventory page.
Click ==
    /\ currentPage = "inventory"
    /\ \E control \in Controls :
          SetInv(Dispatch(control, invBound, InvState), InvEvent(control, InvState))

\* loadInventory after the listing arrived (or the request failed); another
\* loadInventory call may still be in flight.
LoadInventoryDone ==
    /\ invLoading
    /\ \E ok \in BOOLEAN, more \in BOOLEAN, listing \in Listings :
          IF ok
          THEN SetInv(applyFilters([InvState EXCEPT !.items = listing, !.loading = more]),
                      InvEvent("loadInventory", InvState))
          ELSE SetInv([InvState EXCEPT !.loading = more],
                      InvEvent("loadInventoryFailed", InvState))

\* toggleWatchlist(slug, isWatched) after the service call resolved: the item,
\* if allItems still holds it, gets the other flag; then applyFilters()
toggleWatchlist(I, isWatched) ==
    LET items == I.items
        found == IF isWatched THEN items.watched > 0 ELSE items.unwatched > 0
        flipped == IF isWatched
                   THEN [watched |-> items.watched - 1, unwatched |-> items.unwatched + 1]
                   ELSE [watched |-> items.watched + 1, unwatched |-> items.unwatched - 1]
    IN  applyFilters([I EXCEPT !.items = IF found THEN flipped ELSE items])

ToggleWatchlistDone ==
    /\ invBound > 0
    /\ \E isWatched \in BOOLEAN :
          /\ ~isWatched => allItems.watched < MaxWatched
          /\ SetInv(toggleWatchlist(InvState, isWatched), InvEvent("toggleWatchlist", InvState))

InventoryIdle ==
    /\ invPage = 1
    /\ allItems = NoItemsLoaded
    /\ filteredItems = 0
    /\ watchlistOnly = FALSE
    /\ sortOrder = "asc"
    /\ invOp = [control |-> "none", page |-> 1, watchlistOnly |-> FALSE, sortOrder |-> "asc"]

(***************************************************************************)
(* ApiClient (part_005)                                                    *)
(***************************************************************************)
\* The logical tasks that call the services.
Callers == {"page"}
\* with the task that reloads the list in the background
AllCallers == Callers \cup {"refresh"}

\* An endpoint is the sequence of the pieces of its URL; a cache key and a
\* clearCache pattern are sequences of pieces too.
Api(path) == <<"/", "api">> \o path
Query(q) == IF q = "" THEN << >> ELSE <<"?", q>>

\* Response bodies, as JSON text: an object and a number.
Bodies == {"{}", "0"}
JsNull == "null"
\* JavaScript truthiness of a parsed JSON value
Truthy(v) == v \notin {"0", "null", "false", "\"\""}

defaultCacheTTL == 30000
\* The clock advances in steps of one default TTL.
ClockStep == defaultCacheTTL

NoPattern == << >>
NoBody == "none"

RECURSIVE IsPrefix(_, _)
IsPrefix(p, s) ==
    IF p = << >> THEN TRUE
    ELSE IF s = << >> THEN FALSE
    ELSE Head(p) = Head(s) /\ IsPrefix(Tail(p), Tail(s))

\* String.prototype.includes, on URL pieces
RECURSIVE includes(_, _)
includes(key, pattern) ==
    IF IsPrefix(pattern, key) THEN TRUE
    ELSE IF key = << >> THEN FALSE
    ELSE includes(Tail(key), pattern)

_getCacheKey(method, endpoint) == <<method, ":">> \o endpoint

Remove(cache, keys) == [k \in (DOMAIN cache) \ keys |-> cache[k]]
Put(cache, key, entry) == [k \in (DOMAIN cache) \cup {key} |-> IF k = key THEN entry ELSE cache[k]]

\* _getFromCache: the value it returns (null when absent or expired) and the
\* cache it leaves (an expired entry is deleted).
_getFromCache(cache, key, t) ==
    IF key \notin DOMAIN cache
    THEN [value |-> JsNull, cache |-> cache]
    ELSE IF t - cache[key].timestamp < cache[key].ttl
         THEN [value |-> cache[key].data, cache |-> cache]
         ELSE [value |-> JsNull, cache |-> Remove(cache, {key})]

_setCache(cache, key, data, ttl, t) ==
    Put(cache, key, [data |-> data, timestamp |-> t, ttl |-> ttl])

clearCacheExact(cache, pattern) ==
    IF pattern # NoPattern
    THEN Remove(cache, {k \in DOMAIN cache : k = <<"GET", ":">> \o pattern})
    ELSE Remove(cache, DOMAIN cache)

clearCache(cache, pattern) ==
    IF pattern # NoPattern
    THEN Remove(cache, {k \in DOMAIN cache : includes(k, pattern)})
    ELSE Remove(cache, DOMAIN cache)

\* _request builds config.body: JSON.stringify(body) when a body argument is
\* given; otherwise whatever the caller's options carry as body.
RequestBody(body, optionsBody) ==
    IF body # NoBody THEN "json" ELSE IF optionsBody # NoBody THEN "object" ELSE NoBody

retryDelay == 1000

RECURSIVE Pow2(_)
Pow2(n) == IF n = 0 THEN 1 ELSE 2 * Pow2(n - 1)

BackoffFixed(attempt) == retryDelay

\* the wait before the attempt that follows a failed attempt
Backoff(attempt) == retryDelay * Pow2(attempt)

RetryWhileBelow(attempt, retries) == attempt + 1 < retries

\* _request's loop: another attempt follows a failed one while attempt < retries
RetryAfter(attempt, retries) == attempt < retries

(***************************************************************************)
(* Endpoints (endpoints.js) and services (part_006)                        *)
(***************************************************************************)
FragrancesPath == Api(<<"/", "stock", "/", "fragrances">>)
ConfigPath == Api(<<"/", "config">>)
DropsPath == Api(<<"/", "drops">>)
ChangesPath == Api(<<"/", "stock", "/", "changes">>)

\* the fragrance listings the pages ask for: all, the watchlist, a search
FragranceQueries == {"", "watchlist_only=true", "search=a"}

GetReq(svc, endpoint, cache, cacheTTL, retries, preClear) ==
    [svc |-> svc, method |-> "GET", endpoint |-> endpoint, cache |-> cache,
     cacheTTL |-> cacheTTL, retries |-> retries, preClear |-> preClear,
     body |-> NoBody, clears |-> << >>, invalidates |-> FALSE]

MutReq(svc, method, endpoint, body, optionsBody, invalidates, clears) ==
    [svc |-> svc, method |-> method, endpoint |-> endpoint, cache |-> FALSE,
     cacheTTL |-> 0, retries |-> 0, preClear |-> << >>,
     body |-> RequestBody(body, optionsBody), clears |-> clears,
     invalidates |-> invalidates]

StockService_getFragrances ==
    {GetReq("StockService.getFragrances", FragrancesPath \o Query(q),
            q # "search=a", 2 * defaultCacheTTL, 0, NoPattern) : q \in FragranceQueries}

DropsService_getRecentDrops ==
    {GetReq("DropsService.getRecentDrops", DropsPath \o Query("limit=10"),
            TRUE, defaultCacheTTL, 0, NoPattern)}

StockService_getRecentChanges ==
    {GetReq("StockService.getRecentChanges", ChangesPath \o Query("limit=10"),
            TRUE, defaultCacheTTL, 0, NoPattern)}

ConfigService_getConfig ==
    {GetReq("ConfigService.getConfig", ConfigPath, ~forceFresh, defaultCacheTTL, 0,
            IF forceFresh THEN ConfigPath ELSE NoPattern) : forceFresh \in BOOLEAN}

\* apiClient.get called with a retries option
ApiClient_get ==
    {GetReq("ApiClient.get", Api(<<"/", "status">>), TRUE, defaultCacheTTL, n, NoPattern) :
        n \in 0..MaxRetries}

WatchlistService ==
    { MutReq("WatchlistService.addItem", "POST",
             Api(<<"/", "stock", "/", "watchlist", "/", "add", "/", "a">>),
             NoBody, NoBody, TRUE, FragrancesPath),
      MutReq("WatchlistService.removeItem", "POST",
             Api(<<"/", "stock", "/", "watchlist", "/", "remove", "/", "a">>),
             NoBody, NoBody, TRUE, FragrancesPath),
      MutReq("WatchlistService.bulkAdd", "POST", Api(<<"/", "watchlist", "/", "bulk">>),
             "slugs", NoBody, TRUE, FragrancesPath),
      MutReq("WatchlistService.bulkRemove", "DELETE", Api(<<"/", "watchlist", "/", "bulk">>),
             NoBody, "slugs", TRUE, FragrancesPath) }

ConfigSections == {"reddit", "notifications", "detection", "drop-window",
                   "stock-monitoring", "stock-schedule", "logging"}

ConfigService_save ==
    {MutReq("ConfigService.save", "POST", ConfigPath \o <<"/", section>>,
            "config", NoBody, TRUE, ConfigPath) : section \in ConfigSections}

DropsService_deleteDrop ==
    {MutReq("DropsService.deleteDrop", "DELETE", DropsPath \o <<"/", "1">>,
            NoBody, NoBody, FALSE, NoPattern)}

StockService_deleteChange ==
    {MutReq("StockService.deleteChange", "DELETE", ChangesPath \o <<"/", "1">>,
            NoBody, NoBody, FALSE, NoPattern)}

ParfumoService_updateSingleFragrance ==
    {MutReq("ParfumoService.updateSingleFragrance", "POST",
            Api(<<"/", "parfumo", "/", "update", "/", "a">>),
            NoBody, NoBody, TRUE, FragrancesPath)}

\* apiClient.post / put / delete called on the endpoint that apiClient.get reads
ApiClient_mutations ==
    { MutReq("ApiClient.post", "POST", Api(<<"/", "status">>), "data", NoBody, FALSE, NoPattern),
      MutReq("ApiClient.put", "PUT", Api(<<"/", "status">>), "data", NoBody, FALSE, NoPattern),
      MutReq("ApiClient.delete", "DELETE", Api(<<"/", "status">>), NoBody, NoBody, FALSE,
             NoPattern) }

ServiceGetRequests ==
    StockService_getFragrances \cup DropsService_getRecentDrops
    \cup StockService_getRecentChanges \cup ConfigService_getConfig

\* The list and configuration endpoints answer with an object or an array, the
\* mutation endpoints with {success, message}; a bare apiClient.get may be
\* answered with any JSON value.
MutationBody == "{\"success\":true}"
ResponseBodies(req) ==
    IF req.svc = "ApiClient.get" THEN Bodies
    ELSE IF req.method = "GET" THEN {"{}"} ELSE {MutationBody}

MutationRequests ==
    WatchlistService \cup ConfigService_save \cup DropsService_deleteDrop
    \cup StockService_deleteChange \cup ParfumoService_updateSingleFragrance

(***************************************************************************)
(* A call's progress                                                       *)
(***************************************************************************)
Idle == [stage |-> "idle"]
InFlight(req, attempt) == [stage |-> "inflight", req |-> req, attempt |-> attempt]
Delayed(req, attempt) ==
    [stage |-> "delay", req |-> req, attempt |-> attempt, wait |-> Backoff(attempt)]
\* a settled call: sent counts the network requests it made
Resolved(req, data, sent) ==
    [stage |-> "done", req |-> req, ok |-> TRUE, data |-> data, sent |-> sent]
Rejected(req, error, sent) ==
    [stage |-> "done", req |-> req, ok |-> FALSE, error |-> error, sent |-> sent]

CanCall(c) == calls[c].stage \in {"idle", "done"}

\* ApiClient.get up to its await; a cache hit returns at once.
get(c, req) ==
    LET key == _getCacheKey("GET", req.endpoint)
        cleared == IF req.preClear # NoPattern
                   THEN clearCache(apiCache, req.preClear) ELSE apiCache
        r == IF req.cache THEN _getFromCache(cleared, key, now)
             ELSE [value |-> JsNull, cache |-> cleared]
    IN  /\ CanCall(c)
        /\ apiCache' = r.cache
        /\ calls' = [calls EXCEPT ![c] = IF req.cache /\ Truthy(r.value)
                                         THEN Resolved(req, r.value, 0)
                                         ELSE InFlight(req, 0)]
        /\ UNCHANGED <<now, notApi>>

Get == \E c \in Callers, req \in ServiceGetRequests : get(c, req)

RawGet == \E c \in Callers, req \in ApiClient_get : get(c, req)

\* post / delete (through a service method) up to the await
mutate(c, req) ==
    /\ CanCall(c)
    /\ calls' = [calls EXCEPT ![c] = InFlight(req, 0)]
    /\ UNCHANGED <<apiCache, now, notApi>>

Mutate == \E c \in Callers, req \in MutationRequests : mutate(c, req)

RawMutate == \E c \in Callers, req \in ApiClient_mutations : mutate(c, req)

AfterSuccessCachesAll(cache, req, data, t) ==
    IF req.cache \/ req.method # "GET"
    THEN _setCache(cache, _getCacheKey(req.method, req.endpoint), data, defaultCacheTTL, t)
    ELSE cache

\* What the caller's code does with a successful response before it returns.
AfterSuccess(cache, req, data, t) ==
    IF req.method = "GET"
    THEN IF req.cache THEN _setCache(cache, _getCacheKey("GET", req.endpoint), data,
                                     req.cacheTTL, t)
         ELSE cache
    ELSE IF req.invalidates THEN clearCache(cache, req.clears) ELSE cache

\* fetch settles with a 2xx response whose JSON body is data
respondOk(c, data) ==
    /\ calls[c].stage = "inflight"
    /\ apiCache' = AfterSuccess(apiCache, calls[c].req, data, now)
    /\ calls' = [calls EXCEPT ![c] = Resolved(calls[c].req, data, calls[c].attempt + 1)]
    /\ UNCHANGED <<now, notApi>>

RespondOk ==
    \E c \in Callers : calls[c].stage = "inflight" /\
        \E data \in ResponseBodies(calls[c].req) : respondOk(c, data)

ErrorKinds == {"network", "http"}

AfterFailureClears(cache, req) ==
    IF req.invalidates THEN clearCache(cache, req.clears) ELSE cache

\* What the caller's code does when _request throws: the await rethrows, so
\* the statements after it (clearCache, _setCache) are not reached.
AfterFailure(cache, req) == cache

\* fetch rejects, or the response is not 2xx: retry after a delay, or throw
respondError(c, kind) ==
    /\ calls[c].stage = "inflight"
    /\ LET call == calls[c]
           error == [kind |-> kind, attempt |-> call.attempt]
       IN  IF RetryAfter(call.attempt, call.req.retries)
           THEN /\ calls' = [calls EXCEPT ![c] = Delayed(call.req, call.attempt)]
                /\ UNCHANGED apiCache
           ELSE /\ calls' = [calls EXCEPT ![c] =
                                Rejected(call.req, error, call.attempt + 1)]
                /\ apiCache' = AfterFailure(apiCache, call.req)
    /\ UNCHANGED <<now, notApi>>

RespondError == \E c \in Callers, kind \in ErrorKinds : respondError(c, kind)

\* the delay is over: the next attempt is sent
retry(c) ==
    /\ calls[c].stage = "delay"
    /\ calls' = [calls EXCEPT ![c] = InFlight(calls[c].req, calls[c].attempt + 1)]
    /\ UNCHANGED <<apiCache, now, notApi>>

Retry == \E c \in Callers : retry(c)

\* The race of a fragrance listing with a watchlist change: the backend
\* produces a response from its state at that moment, and the response reaches
\* the client later.
Answered(req, attempt, data) ==
    [stage |-> "answered", req |-> req, attempt |-> attempt, data |-> data]

\* the listing the backend returns after v watchlist changes
ListBody(v) == ToString([i \in 1..v |-> i])

ListRequests == {req \in StockService_getFragrances : req.endpoint = FragrancesPath}
WatchlistChanges ==
    {req \in WatchlistService :
        req.svc \in {"WatchlistService.addItem", "WatchlistService.removeItem"}}

ListGet == \E c \in AllCallers, req \in ListRequests : get(c, req)

WatchlistChange == \E req \in WatchlistChanges : mutate("page", req)

BackendAnswers ==
    /\ \E c \in AllCallers :
          /\ calls[c].stage = "inflight"
          /\ IF calls[c].req.method = "GET"
             THEN /\ calls' = [calls EXCEPT ![c] =
                                  Answered(calls[c].req, calls[c].attempt, ListBody(backend))]
                  /\ UNCHANGED backend
             ELSE /\ backend < MaxMutations
                  /\ backend' = backend + 1
                  /\ calls' = [calls EXCEPT ![c] =
                                  Answered(calls[c].req, calls[c].attempt, MutationBody)]
    /\ UNCHANGED <<apiCache, notClient>>

\* the response arrives: get stores it, a watchlist method clears the cache
Deliver ==
    /\ \E c \in AllCallers :
          /\ calls[c].stage = "answered"
          /\ apiCache' = AfterSuccess(apiCache, calls[c].req, calls[c].data, now)
          /\ calls' = [calls EXCEPT ![c] =
                          Resolved(calls[c].req, calls[c].data, calls[c].attempt + 1)]
    /\ UNCHANGED <<backend, notClient>>

ClearPatterns == {NoPattern, FragrancesPath, ConfigPath, Api(<<"/", "status">>)}

\* apiClient.clearCache(pattern) called by a page
ClearCache ==
    /\ \E pattern \in ClearPatterns : apiCache' = clearCache(apiCache, pattern)
    /\ apiCache' # apiCache
    /\ UNCHANGED <<now, calls, notApi>>

TimePasses ==
    /\ now < MaxTicks * ClockStep
    /\ now' = now + ClockStep
    /\ UNCHANGED <<navVars, dashboardDom, apiVars, backend, cacheVars, storeVars, dateVars, invVars, toastVars>>

ApiIdle ==
    /\ apiCache = << >>
    /\ calls = [c \in AllCallers |-> Idle]
    /\ backend = 0

NavIdle ==
    /\ currentPage = "dashboard"
    /\ hist = << [hash |-> "", page |-> NoState] >>
    /\ histIdx = 1
    /\ navReq = [trigger |-> "load", page |-> "dashboard"]
    /\ callLog = << >>
    /\ timers = [k \in TimerKinds |-> {}]
    /\ dashboardRefreshInterval = NoTimer
    /\ parfumoProgressInterval = NoTimer
    /\ parfumoPeriodicRefresh = NoTimer
    /\ pending = [k \in PendingKinds |-> 0]
    /\ dashLoads = 0
    /\ invBound = 0
    /\ invLoading = FALSE
    /\ dashboardDom = NoWrite

InitApi == ApiIdle /\ now = 0 /\ NavIdle /\ CacheIdle /\ StoreIdle /\ DateIdle /\ InventoryIdle /\ ToastIdle

\* SpecApi: apiClient.get with caching and retries, and clearCache
NextApi ==
    \/ RawGet
    \/ RawMutate
    \/ RespondOk
    \/ RespondError
    \/ Retry
    \/ ClearCache
    \/ TimePasses

SpecApi == InitApi /\ [][NextApi]_vars

\* caller c starts a call in this step
Starts(c) == CanCall(c) /\ calls'[c] # calls[c]
\* caller c's call settles on a response in this step
Settles(c) == calls[c].stage = "inflight" /\ calls'[c].stage = "done"

\* C6: a get with caching enabled, made within the TTL of a stored response
\* for its endpoint, makes no network request and returns the stored body,
\* whatever JSON value it is.
C6_CachedGetServedFromCache ==
    [][\A c \in Callers :
          Starts(c) /\ calls'[c].req.method = "GET" /\ calls'[c].req.cache =>
              LET key == _getCacheKey("GET", calls'[c].req.endpoint)
              IN  key \in DOMAIN apiCache
                  /\ now - apiCache[key].timestamp < apiCache[key].ttl
                  => calls'[c] = Resolved(calls'[c].req, apiCache[key].data, 0)]_vars

\* C7: a request with retries = n makes at most n + 1 attempts, one after
\* another; it resolves on the first success, and when all n + 1 attempts
\* fail it raises the error of the last one.
C7_Retries ==
    \A c \in Callers :
        LET call == calls[c]
        IN  /\ call.stage = "inflight" => call.attempt <= call.req.retries
            /\ call.stage = "delay" => call.attempt < call.req.retries
            /\ call.stage = "done" /\ call.ok => call.sent <= call.req.retries + 1
            /\ call.stage = "done" /\ ~call.ok =>
                  /\ call.sent = call.req.retries + 1
                  /\ call.error.attempt = call.req.retries

\* two failures, then a success, under retries = 2
C7_Witness ==
    \E c \in Callers :
        /\ calls[c].stage = "done" /\ calls[c].ok
        /\ calls[c].req.retries = 2 /\ calls[c].sent = 3

\* SpecServices: the service methods over the client
NextServices ==
    \/ Get
    \/ Mutate
    \/ RespondOk
    \/ RespondError
    \/ TimePasses

SpecServices == InitApi /\ [][NextServices]_vars

WatchlistMethods == {"WatchlistService.addItem", "WatchlistService.removeItem",
                     "WatchlistService.bulkAdd", "WatchlistService.bulkRemove"}

\* The cached reads whose content a service's mutation changes.
AffectedRegion(svc) ==
    CASE svc \in WatchlistMethods -> FragrancesPath
      [] svc = "ParfumoService.updateSingleFragrance" -> FragrancesPath
      [] svc = "ConfigService.save" -> ConfigPath
      [] svc = "DropsService.deleteDrop" -> DropsPath
      [] svc = "StockService.deleteChange" -> ChangesPath

CachedUnder(cache, path) == {k \in DOMAIN cache : includes(k, path)}

\* C23: every request sent with a body carries the body JSON-serialized; in
\* particular the DELETE of WatchlistService.bulkRemove carries the JSON text
\* of {slugs}.
C23_BodiesAreJson ==
    \A c \in Callers :
        calls[c].stage = "inflight" => calls[c].req.body \in {NoBody, "json"}

\* C27: when the mutation request of a service method fails, the error is
\* raised to the caller and the response cache is left exactly as it was.
C27_FailedMutationKeepsCache ==
    [][\A c \in Callers :
          (calls[c].stage = "inflight" /\ calls[c].req.method # "GET"
           /\ calls'[c] # calls[c] /\ calls'[c].stage # "inflight")
          => \/ calls'[c].stage = "done" /\ calls'[c].ok
             \/ /\ calls'[c].stage = "done" /\ ~calls'[c].ok
                /\ calls'[c].error.kind \in ErrorKinds
                /\ apiCache' = apiCache]_vars

\* a watchlist method was rejected while a fragrance listing was cached
C27_Witness ==
    \E c \in Callers :
        /\ calls[c].stage = "done" /\ ~calls[c].ok
        /\ calls[c].req.svc \in WatchlistMethods
        /\ CachedUnder(apiCache, FragrancesPath) # {}

\* C4: when a mutating service method returns successfully, no cached GET
\* response of the region it changes remains.
C4_MutationsInvalidate ==
    [][\A c \in Callers :
          Settles(c) /\ calls'[c].ok /\ calls[c].req.method # "GET" =>
              CachedUnder(apiCache', AffectedRegion(calls[c].req.svc)) = {}]_vars

LoadEntries == {[hash |-> h, page |-> NoState] : h \in Hashes}
EarlierEntries == {[hash |-> p, page |-> p] : p \in {"configuration", OtherPage}}

NoTimers == [k \in TimerKinds |-> {}]

\* new Router(): currentPage = 'dashboard', then handleInitialRoute().
InitNav ==
    /\ \E e \in LoadEntries :
         /\ hist \in {<<e>>} \cup {<<p, e>> : p \in EarlierEntries}
         /\ currentPage = InitialRoute(e.hash)
         /\ navReq = [trigger |-> "load", page |-> IF e.hash = "" THEN "dashboard" ELSE e.hash]
         /\ callLog = IF InitialRoute(e.hash) = "dashboard" THEN << >>
                      ELSE LifecycleCalls("dashboard", InitialRoute(e.hash))
         /\ invBound = IF InitialRoute(e.hash) = "inventory" THEN 1 ELSE 0
         /\ invLoading = (InitialRoute(e.hash) = "inventory")
    /\ histIdx = Len(hist)
    /\ timers = NoTimers
    /\ dashboardRefreshInterval = NoTimer
    /\ parfumoProgressInterval = NoTimer
    /\ parfumoPeriodicRefresh = NoTimer
    /\ pending = [k \in PendingKinds |-> 0]
    /\ dashLoads = 0
    /\ dashboardDom = NoWrite
    /\ ApiIdle /\ now = 0 /\ CacheIdle /\ StoreIdle /\ DateIdle /\ InventoryIdle /\ ToastIdle

NextNav ==
    \/ NavigateTo
    \/ Popstate
    \/ DashboardTick
    \/ DashboardLoadDone

SpecNav == InitNav /\ [][NextNav]_vars

Leave(page) == [hook |-> "leave", page |-> page]
Enter(page) == [hook |-> "enter", page |-> page]

\* C1: at most one dashboard auto-refresh timer exists, and none exists while
\* a page other than dashboard is the active page.
C1_OneDashboardTimer ==
    /\ Cardinality(timers["dashboard"]) <= 1
    /\ currentPage # "dashboard" => timers["dashboard"] = {}

\* dashboard entered by navigateTo, left for inventory, entered again by "back"
C1_Witness ==
    /\ Len(hist) = 3 /\ histIdx = 2
    /\ hist[2].page = "dashboard" /\ hist[3].page = "inventory"
    /\ currentPage = "dashboard"
    /\ callLog = << Leave("inventory"), Enter("dashboard") >>
    /\ Cardinality(timers["dashboard"]) = 1

\* C2: the active page is always a member of the fixed page set, whichever
\* trigger (navigation click, navigateTo, popstate) asked for the page.
C2_ActivePageInSet == currentPage \in pages

\* C3: a transition from page A to a different page B calls A's leave-hook
\* once, then B's enter-hook once, and no other hook.
C3_LeaveBeforeEnter ==
    [][currentPage' # currentPage =>
          callLog' = << Leave(currentPage), Enter(currentPage') >>]_vars

C3_Witness ==
    /\ currentPage = "configuration"
    /\ callLog = << Leave("inventory"), Enter("configuration") >>

\* C21: after any navigateTo calls and back/forward events, the active page
\* is the page encoded in the URL fragment of the current history entry, also
\* on the entry the application was loaded on.
C21_ActivePageIsFragmentPage == currentPage = InitialRoute(hist[histIdx].hash)

\* C22: whenever dashboard is the active page, from the end of startup on,
\* exactly one dashboard auto-refresh timer is running.
C22_DashboardTimerWhileActive ==
    currentPage = "dashboard" => Cardinality(timers["dashboard"]) = 1

\* C24: a dashboard data load that resolves after the user has navigated to
\* another page does not write the dashboard's DOM: every write is made while
\* dashboard is the active page.
C24_StaleLoadNotApplied ==
    dashboardDom # NoWrite => dashboardDom.page = "dashboard"

(***************************************************************************)
(* SpecConfig: the configuration page's ratings timers under navigation    *)
(***************************************************************************)
\* A fresh load on the bare URL, nothing earlier in the session history.
InitConfig ==
    /\ InitNav
    /\ hist = << [hash |-> "", page |-> NoState] >>

NextConfig ==
    \/ NavigateTo
    \/ Popstate
    \/ DashboardTick
    \/ DashboardLoadDone
    \/ TriggerParfumoUpdate
    \/ TriggerParfumoUpdateDone
    \/ LoadParfumoStatus
    \/ LoadParfumoStatusDone
    \/ ProgressTick
    \/ ProgressTickDone
    \/ PeriodicTick
    \/ PeriodicTickDone

SpecConfig == InitConfig /\ [][NextConfig]_vars

\* C9: leaving the configuration page cancels the ratings progress poll and
\* the ratings periodic refresh, so neither runs on another page.
C9_LeaveCancelsConfigTimers ==
    [][currentPage = "configuration" /\ currentPage' # "configuration" =>
          timers'["progress"] = {} /\ timers'["periodic"] = {}]_vars

(***************************************************************************)
(* SpecParfumo: the ratings timers while configuration stays the page      *)
(***************************************************************************)
\* A fresh load on the bare URL followed by navigateTo('configuration').
InitParfumo ==
    /\ currentPage = "configuration"
    /\ hist = << [hash |-> "", page |-> NoState],
                 [hash |-> "configuration", page |-> "configuration"] >>
    /\ histIdx = 2
    /\ navReq = [trigger |-> "navigateTo", page |-> "configuration"]
    /\ callLog = LifecycleCalls("dashboard", "configuration")
    /\ timers = NoTimers
    /\ dashboardRefreshInterval = NoTimer
    /\ parfumoProgressInterval = NoTimer
    /\ parfumoPeriodicRefresh = NoTimer
    /\ pending = [k \in PendingKinds |-> 0]
    /\ dashLoads = 0
    /\ invBound = 0
    /\ invLoading = FALSE
    /\ dashboardDom = NoWrite
    /\ ApiIdle /\ now = 0 /\ CacheIdle /\ StoreIdle /\ DateIdle /\ InventoryIdle /\ ToastIdle

NextParfumo ==
    \/ TriggerParfumoUpdate
    \/ TriggerParfumoUpdateDone
    \/ LoadParfumoStatus
    \/ LoadParfumoStatusDone
    \/ ProgressTick
    \/ ProgressTickDone
    \/ PeriodicTick
    \/ PeriodicTickDone

SpecParfumo == InitParfumo /\ [][NextParfumo]_vars

\* the live timers of a kind are exactly the one its variable holds, if any
OnlyHeld(kind, handle) == timers[kind] = {handle} \ {NoTimer}

\* C28: in every interleaving of triggerParfumoUpdate, loadParfumoStatus,
\* timer ticks and status responses, at most one progress-polling timer and at
\* most one periodic-refresh timer exist, each held by its variable (a handle
\* is cancelled before it is overwritten); and a progress-poll tick that sees
\* currently_updating = false (it goes on to reload the status) leaves no
\* progress-polling timer.
C28_OneParfumoTimerEach ==
    /\ [](OnlyHeld("progress", parfumoProgressInterval)
          /\ OnlyHeld("periodic", parfumoPeriodicRefresh))
    /\ [][pending'["progressTick"] < pending["progressTick"]
             /\ pending'["load"] > pending["load"] =>
                 timers'["progress"] = {} /\ parfumoProgressInterval' = NoTimer]_vars

\* a progress poll is registered while the response of an earlier trigger is
\* still awaited: its pollParfumoProgress will replace a live timer
C28_Witness ==
    /\ Cardinality(timers["progress"]) = 1
    /\ Cardinality(timers["periodic"]) = 1
    /\ pending["progressTick"] > 0

(***************************************************************************)
(* SpecCache: CacheManager under a passing clock                           *)
(***************************************************************************)
InitCache == CacheIdle /\ now = 0 /\ NavIdle /\ ApiIdle /\ StoreIdle /\ DateIdle /\ InventoryIdle /\ ToastIdle

NextCache ==
    \/ CacheSet
    \/ CacheGet
    \/ CacheHas
    \/ CacheInvalidate
    \/ CacheInvalidatePattern
    \/ CacheCleanup
    \/ TimePasses

SpecCache == InitCache /\ [][NextCache]_vars

\* C8: get(k) at time t returns the value set at time s with ttl exactly when
\* t - s < ttl; otherwise it returns absent and removes the entry.
C8_ValidIffWithinTtl ==
    [][\A key \in DOMAIN cmCache :
          cmRet' # cmRet /\ cmRet'.op = "get" /\ cmRet'.key = key =>
              IF now - cmCache[key].storedAt < cmCache[key].ttl
              THEN cmRet'.value = cmCache[key].value
              ELSE cmRet'.value = Absent /\ key \notin DOMAIN cmCache']_vars

(***************************************************************************)
(* SpecStore: StateStore.set and reloads                                   *)
(***************************************************************************)
\* localStorage may hold the blob an earlier session saved.
EarlierItems ==
    {setItem(STORAGE_KEY, [watchlist |-> w, lastUpdate |-> ToString(0)]) : w \in SetValues}

InitStore ==
    /\ storage \in {NoItems} \cup EarlierItems
    /\ state = loadFromStorage(SlotDefaults, storage)
    /\ storeOp = "new"
    /\ storeArgs = << >>
    /\ listeners = NoListeners /\ notifyLog = << >> /\ regs = << >>
    /\ now = 0 /\ NavIdle /\ ApiIdle /\ CacheIdle /\ DateIdle /\ InventoryIdle /\ ToastIdle

NextStore ==
    \/ StoreSet
    \/ StoreReset
    \/ StoreReload
    \/ TimePasses

SpecStore == InitStore /\ [][NextStore]_vars

C11_ResetRestoresDefaults ==
    [][storeOp' = "reset" =>
          /\ \A k \in Slots : state'[k] = SlotDefaults[k]
          /\ STORAGE_KEY \notin DOMAIN storage'
          /\ \A k \in Slots : loadFromStorage(SlotDefaults, storage')[k] = SlotDefaults[k]]_vars

(***************************************************************************)
(* SpecSubs: StateStore subscribers                                        *)
(***************************************************************************)
\* The page's scripts start to use the store at some time after the load.
InitSubs ==
    /\ StoreIdle
    /\ now \in {0, ClockStep}
    /\ NavIdle /\ ApiIdle /\ CacheIdle /\ DateIdle /\ InventoryIdle /\ ToastIdle

NextSubs ==
    \/ Subscribe
    \/ Unsubscribe
    \/ StoreSetObserved

SpecSubs == InitSubs /\ [][NextSubs]_vars

\* SpecReset: reset() with subscribers registered
NextReset ==
    \/ Subscribe
    \/ StoreReset

SpecReset == InitSubs /\ [][NextReset]_vars

\* C25: reset() invokes each wildcard subscriber exactly once, with null
\* values, and invokes no subscriber of a specific key.
C25_ResetNotifiesWildcardOnce ==
    storeOp = "reset" =>
        /\ Len(notifyLog) = Len(ListenersOf(listeners, Wildcard))
        /\ \A i \in 1..Len(notifyLog) :
              /\ notifyLog[i].cb = ListenersOf(listeners, Wildcard)[i]
              /\ notifyLog[i].args[Len(notifyLog[i].args)] = "null"

\* the callbacks the last operation invoked with n arguments, in order
Invoked(n) ==
    LET q == SelectSeq(notifyLog, LAMBDA e : Len(e.args) = n)
    IN  [i \in 1..Len(q) |-> q[i].cb]

\* C12: when a callback throws during a set, every subscriber of the key and
\* every wildcard subscriber is still invoked for that set, and the slot is
\* updated.
C12_ThrowingSubscriberIsolated ==
    storeOp = "set" =>
        /\ Range(Invoked(2)) = Range(ListenersOf(listeners, storeArgs[1]))
        /\ Range(Invoked(3)) = Range(ListenersOf(listeners, Wildcard))
        /\ state[storeArgs[1]] = storeArgs[2]

\* the first subscriber of the key threw; the second and the wildcard
\* subscriber were invoked after it
C12_Witness ==
    /\ storeOp = "set" /\ storeArgs[1] = "watchlist"
    /\ Len(notifyLog) = 3
    /\ notifyLog[1].threw /\ ~notifyLog[2].threw /\ ~notifyLog[3].threw
    /\ Len(notifyLog[2].args) = 2 /\ Len(notifyLog[3].args) = 3
    /\ state.watchlist = "[\"a\"]"

\* a was subscribed to key in a subscribe call made before one of b
SubscribedBefore(key, a, b) ==
    \E i, j \in 1..Len(regs) :
        /\ i < j
        /\ regs[i].key = key /\ regs[i].cb = a
        /\ regs[j].key = key /\ regs[j].cb = b

InSubscriptionOrder(key, q) ==
    \A i, j \in 1..Len(q) : i < j => SubscribedBefore(key, q[i], q[j])

\* C13: set(key, value) assigns the slot, stamps lastUpdate with the current
\* time and invokes the key's subscribers, then the wildcard subscribers, each
\* group in subscription order, before it returns.
C13_SetNotifiesInOrder ==
    [][storeOp' = "set" =>
          LET key == storeArgs'[1]
              value == storeArgs'[2]
              n == Len(ListenersOf(listeners, key))
          IN  /\ state'[key] = value
              /\ state'.lastUpdate = ToString(now)
              /\ Len(notifyLog') = n + Len(ListenersOf(listeners, Wildcard))
              /\ \A i \in 1..Len(notifyLog') :
                    notifyLog'[i].args = IF i <= n THEN <<value, state[key]>>
                                        ELSE <<key, value, state[key]>>
              /\ Invoked(2)' = ListenersOf(listeners, key)
              /\ Invoked(3)' = ListenersOf(listeners, Wildcard)
              /\ InSubscriptionOrder(key, Invoked(2)')
              /\ InSubscriptionOrder(Wildcard, Invoked(3)')]_vars

\* g and f subscribed to watchlist in that order, f to the wildcard: a set of
\* watchlist at the later time has invoked g, f, then f
C13_Witness ==
    /\ storeOp = "set" /\ storeArgs[1] = "watchlist"
    /\ state.lastUpdate = ToString(ClockStep)
    /\ Len(notifyLog) = 3
    /\ Invoked(2) = <<"g", "f">>
    /\ Invoked(3) = <<"f">>
    /\ Len(notifyLog[3].args) = 3

\* C19 as stated: the closure subscribe returned removes exactly its
\* registration, and a second call of it changes nothing.
C19_UnsubscribeOnce ==
    [][storeOp' = "unsubscribe" =>
          LET r == regs[storeArgs'[1]]
          IN  /\ r.cb \notin Range(ListenersOf(listeners', r.key))
              /\ \A k \in DOMAIN listeners :
                    listeners'[k] = IF k = r.key THEN SetDelete(listeners[k], r.cb)
                                   ELSE listeners[k]
              /\ r.called => listeners' = listeners]_vars

\* C19 amended: the closure removes its callback from its key and nothing
\* else; a later call of it changes nothing unless the callback is subscribed
\* to the key again, and then removes it again.
C19_UnsubscribeCallback ==
    [][storeOp' = "unsubscribe" =>
          LET r == regs[storeArgs'[1]]
          IN  /\ r.cb \notin Range(ListenersOf(listeners', r.key))
              /\ \A k \in DOMAIN listeners :
                    listeners'[k] = IF k = r.key THEN SetDelete(listeners[k], r.cb)
                                   ELSE listeners[k]
              /\ r.called =>
                    (listeners' = listeners <=> r.cb \notin Range(ListenersOf(listeners, r.key)))]_vars

\* f unsubscribed from watchlist: g on watchlist and f on the wildcard stay
C19_Witness ==
    /\ storeOp = "unsubscribe"
    /\ regs[storeArgs[1]] = [key |-> "watchlist", cb |-> "f", called |-> TRUE]
    /\ listeners = [k \in Channels |-> IF k = "watchlist" THEN <<"g">> ELSE <<"f">>]

\* C14: navigateTo with a page outside the fixed set leaves the active page
\* as it was, pushes no history entry and calls no leave-hook or enter-hook.
C14_NavigateToUnknownPage ==
    [][navReq'.trigger = "navigateTo" /\ navReq'.page \notin pages =>
          /\ currentPage' = currentPage
          /\ hist' = hist /\ histIdx' = histIdx
          /\ callLog' = << >>
          /\ timers' = timers
          /\ dashboardRefreshInterval' = dashboardRefreshInterval]_vars

\* navigateTo('configuration'), then navigateTo('activity')
C14_Witness ==
    /\ navReq = [trigger |-> "navigateTo", page |-> OtherPage]
    /\ currentPage = "configuration"
    /\ hist[histIdx].page = "configuration"
    /\ histIdx = Len(hist)
    /\ callLog = << >>

\* C15: post, put and delete always send a network request and neither read
\* nor write the response cache: a cached GET entry of the same endpoint stays
\* as it was and no entry ever holds a mutation's response.
C15_MutationsBypassCache ==
    [][\A c \in Callers :
          /\ Starts(c) /\ calls'[c].req.method # "GET" =>
                calls'[c].stage = "inflight" /\ apiCache' = apiCache
          /\ Settles(c) /\ calls[c].req \in ApiClient_mutations =>
                /\ calls'[c].sent = 1
                /\ apiCache' = apiCache
                /\ calls'[c].ok =>
                      \A k \in DOMAIN apiCache' : apiCache'[k].data # calls'[c].data]_vars

\* a delete has resolved while the GET response of its endpoint is cached
C15_Witness ==
    \E c \in Callers :
        /\ calls[c].stage = "done" /\ calls[c].ok
        /\ calls[c].req.method = "DELETE"
        /\ calls[c].data = MutationBody
        /\ _getCacheKey("GET", calls[c].req.endpoint) \in DOMAIN apiCache

\* C16: after failed attempt k of a request with more attempts left the client
\* waits retryDelay * 2^k ms; after the last failed attempt it raises the
\* error without waiting.
C16_ExponentialBackoff ==
    [][\A c \in Callers :
          calls[c].stage = "inflight" /\ calls'[c] # calls[c]
          /\ ~(calls'[c].stage = "done" /\ calls'[c].ok) =>
              IF calls[c].attempt < calls[c].req.retries
              THEN /\ calls'[c].stage = "delay"
                   /\ calls'[c].wait = retryDelay * (2 ^ calls[c].attempt)
              ELSE calls'[c].stage = "done" /\ ~calls'[c].ok]_vars

\* the second attempt has failed: the client waits 2 * retryDelay
C16_Witness ==
    \E c \in Callers :
        /\ calls[c].stage = "delay"
        /\ calls[c].attempt = 1
        /\ calls[c].wait = 2 * retryDelay

(***************************************************************************)
(* SpecDate: parseTimestamp over its inputs                                *)
(***************************************************************************)
InitDate == DateIdle /\ InventoryIdle /\ ToastIdle /\ now = 0 /\ NavIdle /\ ApiIdle /\ CacheIdle /\ StoreIdle

NextDate ==
    \/ ParseTimestamp
    \/ ParseDate

SpecDate == InitDate /\ [][NextDate]_vars

\* C17: an integer n below 10,000,000,000 parses to the instant n * 1000 ms,
\* a larger one to the instant n ms; null, undefined, empty and unparseable
\* strings parse to null.
C17_SecondsOrMilliseconds ==
    /\ dateIn.type = "number" =>
          dateOut = [type |-> "date",
                     ms |-> IF dateIn.neg \/ Len(dateIn.digits) <= 10
                            THEN Times1000(dateIn) ELSE dateIn]
    /\ dateIn.type \in {"null", "undefined"} => dateOut = JsNullValue
    /\ dateIn \in {Str(""), Str("not a date")} => dateOut = JsNullValue

\* C18: invalidatePattern(p) removes exactly the cached keys that contain p
\* and leaves every other entry, its value and its expiry, as it was.
C18_PatternRemovesContaining ==
    [][cmRet' # cmRet /\ cmRet'.op = "invalidatePattern" =>
          /\ DOMAIN cmCache' = {k \in DOMAIN cmCache : ~includes(k, cmRet'.key)}
          /\ \A k \in DOMAIN cmCache' : cmCache'[k] = cmCache[k]]_vars

(***************************************************************************)
(* SpecRace: a fragrance listing in flight while the watchlist is changed  *)
(***************************************************************************)
NextRace ==
    \/ ListGet
    \/ WatchlistChange
    \/ BackendAnswers
    \/ Deliver

SpecRace == InitApi /\ [][NextRace]_vars

\* the listings the backend produced before its v-th watchlist change
ListsBefore(v) == {ListBody(w) : w \in 0..(v - 1)}

\* C20: once addItem or removeItem has resolved, no get is served from a
\* cache entry holding a listing the backend produced before that change,
\* whatever the order in which the responses arrived.
C20_NoStaleListAfterChange ==
    [][\A c \in AllCallers :
          (/\ calls["page"].stage = "done"
           /\ calls["page"].ok
           /\ calls["page"].req \in WatchlistChanges
           /\ CanCall(c)
           /\ calls'[c] # calls[c]
           /\ calls'[c].req.method = "GET"
           /\ calls'[c].stage = "done")
              => calls'[c].data \notin ListsBefore(backend)]_vars

(***************************************************************************)
(* SpecToast: toasts shown and auto-dismissed                              *)
(***************************************************************************)
InitToast == InitDate

NextToast ==
    \/ Show
    \/ FireTimeout

\* the event loop runs every timeout that is due
SpecToast == InitToast /\ [][NextToast]_vars /\ WF_vars(FireTimeout)

AutoDismissed(n) ==
    /\ n <= Len(shown)
    /\ ~shown[n].persistent
    /\ shown[n].duration > 0

Gone(n) ==
    /\ n <= Len(shown)
    /\ n \notin container
    /\ shown[n].id \notin DOMAIN toasts

\* C26: every toast shown with persistent = false and duration > 0 is
\* eventually dismissed: its element leaves the container and its id leaves
\* the toasts map, also when two toasts are shown at the same clock reading.
C26_ToastEventuallyDismissed ==
    \A n \in 1..MaxToasts : AutoDismissed(n) ~> Gone(n)

(***************************************************************************)
(* SpecInventory: the inventory page under navigation and clicks           *)
(***************************************************************************)
NextInventory ==
    \/ NavigateTo
    \/ Popstate
    \/ Click
    \/ LoadInventoryDone

\* A fresh load, nothing earlier in the session history.
InitInventory ==
    /\ InitNav
    /\ Len(hist) = 1

SpecInventory == InitInventory /\ [][NextInventory]_vars

\* the inventory state the last event found
Before == [InvState EXCEPT !.page = invOp.page, !.watchlistOnly = invOp.watchlistOnly,
                           !.sortOrder = invOp.sortOrder]

\* C29: however many times the inventory page has been entered, one click has
\* the effect of one handler run: next-page advances the page by one (within
\* the range), the watchlist-only and sort-direction toggles flip once.
C29_OneHandlerRunPerClick ==
    /\ invOp.control = "next-page" => invPage = changePage(Before, 1).page
    /\ invOp.control = "watchlist-toggle" => watchlistOnly = ~invOp.watchlistOnly
    /\ invOp.control = "sort-direction-toggle" => sortOrder # invOp.sortOrder

(***************************************************************************)
(* SpecPaging: paging and filtering while inventory stays the page         *)
(***************************************************************************)
\* A fresh load on #inventory: the router has entered the page once.
InitPaging ==
    /\ InitInventory
    /\ currentPage = "inventory"

NextPaging ==
    \/ Click
    \/ LoadInventoryDone
    \/ ToggleWatchlistDone

SpecPaging == InitPaging /\ [][NextPaging]_vars

LastPage == IF Ceil(filteredItems, itemsPerPage) > 1 THEN Ceil(filteredItems, itemsPerPage)
            ELSE 1

\* C30: 1 <= currentPage <= max(1, ceil(|filteredItems| / itemsPerPage)) after
\* any changePage, applyFilters, loadInventory and watchlist toggle; a
\* changePage that would leave the range leaves currentPage as it was, and
\* every applyFilters sets it to 1.
C30_PageInRange ==
    /\ 1 <= invPage /\ invPage <= LastPage
    /\ invOp.control = "next-page" /\ invOp.page + 1 > LastPage => invPage = invOp.page
    /\ invOp.control = "prev-page" /\ invOp.page - 1 < 1 => invPage = invOp.page
    /\ invOp.control \in {"watchlist-toggle", "loadInventory", "toggleWatchlist"} =>
          invPage = 1

\* a next-page click on the last of three pages
C30_Witness ==
    /\ invOp.control = "next-page"
    /\ invOp.page = 3 /\ LastPage = 3
    /\ invPage = 3

====
